---- MODULE Spec2Model ----
(***************************************************************************)
(* Model of rio's event layer (src/rio/src/event/mod.rs): the Msg and      *)
(* RioEvent vocabularies, Debug formatting of RioEvent, the Notifier       *)
(* (notify / on_resize), the VoidListener and the EventProxy that posts    *)
(* EventP envelopes to the winit event loop.                               *)
(***************************************************************************)
EXTENDS Integers, Sequences, FiniteSets, TLC

\* ------------------------------------------------------------------ bounds
MaxStrLen == 1          \* longest Title / PtyWrite payload
MaxLen == 1             \* longest byte sequence handed to notify
MaxSends == 2           \* send_event calls accepted while the loop is alive
MaxInvocations == 2     \* invocations of one callback by the receiving actor

U16Max == 65535

\* ------------------------------------------------------------ value types
RECURSIVE SeqsUpTo(_, _)
SeqsUpTo(S, n) ==
    IF n = 0 THEN {<<>>}
    ELSE LET shorter == SeqsUpTo(S, n - 1)
         IN  shorter \cup {Append(s, x) : s \in {t \in shorter : Len(t) = n - 1}, x \in S}

\* characters a String payload is drawn from; "\n" is the line break
Alphabet == {"a", "\n"}
Strings == SeqsUpTo(Alphabet, MaxStrLen)

\* u8 values a byte payload is drawn from
ByteValues == {0, 255}
ByteSeqs == SeqsUpTo(ByteValues, MaxLen)

WindowSize(l, c, w, h) ==
    [num_lines |-> l, num_cols |-> c, cell_width |-> w, cell_height |-> h]

Geometries == {WindowSize(24, 80, 8, 16), WindowSize(0, 0, 0, 0),
               WindowSize(U16Max, U16Max, U16Max, U16Max)}

\* Msg
Input(bytes) == [tag |-> "Input", bytes |-> bytes]
Shutdown == [tag |-> "Shutdown"]
Resize(size) == [tag |-> "Resize", size |-> size]

\* the Arc<dyn Fn(WindowSize) -> String> payloads
Callbacks == {"f1", "f2"}

UnitTags == {"MouseCursorDirty", "ResetTitle", "CursorBlinkingChange",
             "Wakeup", "Bell", "Exit"}

RioEvent ==
    {[tag |-> t] : t \in UnitTags}
    \cup {[tag |-> "Title", text |-> s] : s \in Strings}
    \cup {[tag |-> "PtyWrite", text |-> s] : s \in Strings}
    \cup {[tag |-> "TextAreaSizeRequest", cb |-> f] : f \in Callbacks}

\* the variant names, character by character
TagName(tag) ==
    CASE tag = "TextAreaSizeRequest" ->
           <<"T","e","x","t","A","r","e","a","S","i","z","e",
             "R","e","q","u","e","s","t">>
      [] tag = "PtyWrite" -> <<"P","t","y","W","r","i","t","e">>
      [] tag = "Title" -> <<"T","i","t","l","e">>
      [] tag = "CursorBlinkingChange" ->
           <<"C","u","r","s","o","r","B","l","i","n","k","i","n","g",
             "C","h","a","n","g","e">>
      [] tag = "MouseCursorDirty" ->
           <<"M","o","u","s","e","C","u","r","s","o","r","D","i","r","t","y">>
      [] tag = "ResetTitle" -> <<"R","e","s","e","t","T","i","t","l","e">>
      [] tag = "Wakeup" -> <<"W","a","k","e","u","p">>
      [] tag = "Bell" -> <<"B","e","l","l">>
      [] tag = "Exit" -> <<"E","x","i","t">>

\* ------------------------------------------------------- Debug for RioEvent
\* the mutated TextAreaSizeRequest arm calls the formatter it carries
fmt_invoking(e) ==
    CASE e.tag = "TextAreaSizeRequest" ->
           [text |-> TagName(e.tag) \o <<"(">> \o <<")">>, result |-> "Ok",
            invoked |-> {e.cb}]
      [] e.tag \in {"PtyWrite", "Title"} ->
           [text |-> TagName(e.tag) \o <<"(">> \o e.text \o <<")">>,
            result |-> "Ok", invoked |-> {}]
      [] OTHER -> [text |-> TagName(e.tag), result |-> "Ok", invoked |-> {}]

\* write!(f, ...) of each arm: the text written, the fmt::Result, and the
\* callbacks the arm invoked
fmt(e) ==
    CASE e.tag = "TextAreaSizeRequest" ->
           [text |-> TagName(e.tag), result |-> "Ok", invoked |-> {}]
      [] e.tag = "PtyWrite" ->
           [text |-> TagName(e.tag) \o <<"(">> \o e.text \o <<")">>,
            result |-> "Ok", invoked |-> {}]
      [] e.tag = "Title" ->
           [text |-> TagName(e.tag) \o <<"(">> \o e.text \o <<")">>,
            result |-> "Ok", invoked |-> {}]
      [] e.tag \in UnitTags ->
           [text |-> TagName(e.tag), result |-> "Ok", invoked |-> {}]

\* ------------------------------------------------------------ RioEventType
\* the mutated conversion picks a neighbouring variant
From_wrong_variant(rio_event) == [tag |-> "Frame"]

From(rio_event) == [tag |-> "Rio", event |-> rio_event]

EventPNew(payload) == [payload |-> payload]

\* -------------------------------------------------------------------- state
Producers == {"p1", "p2"}       \* threads holding a clone of the EventProxy

VARIABLES
    ptyChan,      \* messages queued on the channel bound to the Notifier
    ptyRxAlive,   \* the PTY writer still holds the receiving end
    evQueue,      \* envelopes posted to the event loop and not yet dequeued
    loopAlive,    \* the winit event loop still exists
    nextSeq,      \* per producer: envelopes it has posted to a live loop
    delivered,    \* identities of the envelopes the loop dequeued, in order
    lastCall,     \* the capability call that returned last
    lastFmt,      \* the RioEvent formatted last and what fmt produced
    cbCalls       \* per callback: how often it has been invoked

vars == <<ptyChan, ptyRxAlive, evQueue, loopAlive, nextSeq, delivered,
          lastCall, lastFmt, cbCalls>>

ptyVars == <<ptyChan, ptyRxAlive>>
uiVars == <<evQueue, loopAlive, nextSeq, delivered>>
fmtVars == <<lastFmt, cbCalls>>

NoEvent == [tag |-> "-"]

Init ==
    /\ ptyChan = <<>>
    /\ ptyRxAlive = TRUE
    /\ evQueue = <<>>
    /\ loopAlive = TRUE
    /\ nextSeq = [p \in Producers |-> 0]
    /\ delivered = <<>>
    /\ lastCall = [op |-> "none", outcome |-> "returned", rx |-> TRUE]
    /\ lastFmt = [event |-> NoEvent, text |-> <<>>, result |-> "Ok"]
    /\ cbCalls = [f \in Callbacks |-> 0]

TotalSent == nextSeq["p1"] + nextSeq["p2"]

\* ----------------------------------------------------------------- Notifier
\* the mutated notify sends, and sends whatever it is given
notify_unguarded(chan, bytes) == Append(chan, Input(bytes))

\* Notifier::notify: the zero-length guard, then nothing (the send is
\* commented out in the source)
notify(chan, bytes) ==
    IF Len(bytes) = 0 THEN chan
    ELSE chan

\* Notifier::on_resize: empty body (the send is commented out in the source)
on_resize(chan, window_size) == chan

Notify(b) ==
    /\ ptyChan' = notify(ptyChan, b)
    /\ lastCall' = [op |-> "notify", outcome |-> "returned", rx |-> ptyRxAlive,
                    bytes |-> b]
    /\ UNCHANGED <<ptyRxAlive, uiVars, fmtVars>>

OnResize(g) ==
    /\ ptyChan' = on_resize(ptyChan, g)
    /\ lastCall' = [op |-> "on_resize", outcome |-> "returned",
                    rx |-> ptyRxAlive, size |-> g]
    /\ UNCHANGED <<ptyRxAlive, uiVars, fmtVars>>

\* the PTY writer goes away; what was queued for it goes with it
PtyReceiverDrop ==
    /\ ptyRxAlive
    /\ ptyRxAlive' = FALSE
    /\ ptyChan' = <<>>
    /\ UNCHANGED <<uiVars, lastCall, fmtVars>>

\* ------------------------------------------------------------- VoidListener
\* the mutated default body posts like the EventProxy does
send_event_default_posting(queue, event) ==
    Append(queue, [env |-> EventPNew(From(event)), src |-> "p1", seq |-> 0])

\* EventListener::send_event, default body: {}
send_event_default(queue, event) == queue

VoidSendEvent(e) ==
    /\ evQueue' = send_event_default(evQueue, e)
    /\ lastCall' = [op |-> "void_send_event", outcome |-> "returned", rx |-> TRUE]
    /\ UNCHANGED <<ptyVars, loopAlive, nextSeq, delivered, fmtVars>>

\* --------------------------------------------------------------- EventProxy
\* mutants of the post: post twice, post at the front
proxy_send_twice(queue, alive, slot) ==
    IF alive THEN [queue |-> queue \o <<slot, slot>>, result |-> "Ok"]
    ELSE [queue |-> queue, result |-> "Err"]

proxy_send_front(queue, alive, slot) ==
    IF alive THEN [queue |-> <<slot>> \o queue, result |-> "Ok"]
    ELSE [queue |-> queue, result |-> "Err"]

\* self.proxy.send_event(..): appends to the loop's queue, or hands the
\* envelope back as an error when the loop is gone
proxy_send_event(queue, alive, slot) ==
    IF alive THEN [queue |-> Append(queue, slot), result |-> "Ok"]
    ELSE [queue |-> queue, result |-> "Err"]

\* the mutated caller unwraps the result
unwrap_result(result) == IF result = "Err" THEN "panicked" ELSE "returned"

\* let _ = ..: the result is thrown away
discard_result(result) == "returned"

\* impl EventListener for EventProxy :: send_event
EventProxySendEvent(p, e) ==
    /\ loopAlive => TotalSent < MaxSends
    /\ LET slot == [env |-> EventPNew(From(e)), src |-> p, seq |-> nextSeq[p] + 1]
           r == proxy_send_event(evQueue, loopAlive, slot)
       IN  /\ evQueue' = r.queue
           /\ lastCall' = [op |-> "send_event", outcome |-> discard_result(r.result),
                           rx |-> loopAlive]
    /\ nextSeq' = IF loopAlive THEN [nextSeq EXCEPT ![p] = @ + 1] ELSE nextSeq
    /\ UNCHANGED <<ptyVars, loopAlive, delivered, fmtVars>>

\* ------------------------------------------------------------ the event loop
\* the loop takes the oldest envelope (it reaches the handler as UserEvent)
Dequeue ==
    /\ loopAlive
    /\ evQueue # <<>>
    /\ delivered' = Append(delivered, <<Head(evQueue).src, Head(evQueue).seq>>)
    /\ evQueue' = Tail(evQueue)
    /\ UNCHANGED <<ptyVars, loopAlive, nextSeq, lastCall, fmtVars>>

\* the loop ends; envelopes still queued are dropped with it
LoopExit ==
    /\ loopAlive
    /\ loopAlive' = FALSE
    /\ evQueue' = <<>>
    /\ UNCHANGED <<ptyVars, nextSeq, delivered, lastCall, fmtVars>>

\* --------------------------------------------------------------- formatting
\* format!("{:?}", e)
Format(e) ==
    LET r == fmt(e)
    IN  /\ lastFmt' = [event |-> e, text |-> r.text, result |-> r.result]
        /\ cbCalls' = [f \in Callbacks |->
                          IF f \in r.invoked THEN cbCalls[f] + 1 ELSE cbCalls[f]]
        /\ UNCHANGED <<ptyVars, uiVars, lastCall>>

\* the receiving actor calls the formatter a TextAreaSizeRequest carries
InvokeCallback(f) ==
    /\ cbCalls[f] < MaxInvocations
    /\ cbCalls' = [cbCalls EXCEPT ![f] = @ + 1]
    /\ UNCHANGED <<ptyVars, uiVars, lastCall, lastFmt>>

\* ----------------------------------------------------------- specifications
\* the event-loop side: producers post through clones of the EventProxy (or
\* through a VoidListener), the loop dequeues and may end, the PTY writer
\* may go away
Next ==
    \/ \E e \in RioEvent : VoidSendEvent(e)
    \/ \E p \in Producers, e \in RioEvent : EventProxySendEvent(p, e)
    \/ Dequeue
    \/ LoopExit
    \/ PtyReceiverDrop

Spec == Init /\ [][Next]_vars

\* the event loop keeps taking envelopes while it lives
FairSpec == Spec /\ WF_vars(Dequeue)

\* the operations that never touch the event loop: the Notifier's two
\* capabilities and Debug formatting
NextLocal ==
    \/ \E b \in ByteSeqs : Notify(b)
    \/ \E g \in Geometries : OnResize(g)
    \/ PtyReceiverDrop
    \/ \E e \in RioEvent : Format(e)
    \/ \E f \in Callbacks : InvokeCallback(f)

SpecLocal == Init /\ [][NextLocal]_vars

\* ------------------------------------------------------------------- claims
Last(q) == q[Len(q)]

\* C1: while the receiver lives, notify(b) with len(b) > 0 appends exactly
\* one message to the PTY channel, Msg::Input carrying exactly b, and leaves
\* the rest of the channel as it was.
C1_NotifyEnqueuesInput ==
    [][\A b \in ByteSeqs :
          (Notify(b) /\ Len(b) > 0 /\ ptyRxAlive)
             => ptyChan' = Append(ptyChan, [tag |-> "Input", bytes |-> b])]_vars

\* C2: notify(b) with len(b) = 0 leaves the PTY channel unchanged, and the
\* channel never holds a Msg::Input with an empty payload.
C2_EmptyNotifyIsNoOp ==
    /\ [](\A i \in 1..Len(ptyChan) :
             ptyChan[i].tag = "Input" => Len(ptyChan[i].bytes) > 0)
    /\ [][\A b \in ByteSeqs :
             (Notify(b) /\ Len(b) = 0) => ptyChan' = ptyChan]_vars

\* a zero-length notify has returned and the channel holds nothing
C2_Witness ==
    /\ lastCall.op = "notify"
    /\ Len(lastCall.bytes) = 0
    /\ ptyChan = <<>>

\* C3: while the receiver lives, on_resize(g) appends exactly one message to
\* the PTY channel, Msg::Resize with the four fields of g.
C3_OnResizeEnqueuesResize ==
    [][\A g \in Geometries :
          (OnResize(g) /\ ptyRxAlive)
             => /\ Len(ptyChan') = Len(ptyChan) + 1
                /\ SubSeq(ptyChan', 1, Len(ptyChan)) = ptyChan
                /\ Last(ptyChan').tag = "Resize"
                /\ Last(ptyChan').size.num_lines = g.num_lines
                /\ Last(ptyChan').size.num_cols = g.num_cols
                /\ Last(ptyChan').size.cell_width = g.cell_width
                /\ Last(ptyChan').size.cell_height = g.cell_height]_vars

\* C4: while the loop lives, send_event(e) on an EventProxy appends exactly
\* one EventP whose payload is RioEventType::Rio(e); after n such calls the
\* loop's queue has received exactly n envelopes (none merged).
C4_SendEventPostsOneEnvelope ==
    /\ [](loopAlive => Len(evQueue) + Len(delivered) = TotalSent)
    /\ [][\A p \in Producers :
             (loopAlive /\ nextSeq'[p] # nextSeq[p]) =>
                \A e \in RioEvent :
                   EventProxySendEvent(p, e)
                      => /\ Len(evQueue') = Len(evQueue) + 1
                         /\ SubSeq(evQueue', 1, Len(evQueue)) = evQueue
                         /\ Last(evQueue').env.payload = [tag |-> "Rio", event |-> e]]_vars

\* two Wakeup events posted in a row sit in the queue as two envelopes
C4_Witness ==
    /\ loopAlive
    /\ lastCall.op = "send_event"
    /\ Len(evQueue) = 2
    /\ evQueue[1].env.payload = [tag |-> "Rio", event |-> [tag |-> "Wakeup"]]
    /\ evQueue[2].env.payload = [tag |-> "Rio", event |-> [tag |-> "Wakeup"]]

\* C5: once the receiver is gone, notify, on_resize (PTY writer gone) and
\* send_event (event loop gone) can still be called with any argument, return
\* normally, and leave the sender's side as it was.
C5_CallsAfterReceiverDropped ==
    /\ ~ptyRxAlive =>
          /\ \A b \in ByteSeqs :
                ENABLED (Notify(b) /\ ptyChan' = ptyChan
                                   /\ lastCall'.outcome = "returned")
          /\ \A g \in Geometries :
                ENABLED (OnResize(g) /\ ptyChan' = ptyChan
                                     /\ lastCall'.outcome = "returned")
    /\ ~loopAlive =>
          \A p \in Producers, e \in RioEvent :
             ENABLED (EventProxySendEvent(p, e)
                         /\ evQueue' = evQueue /\ nextSeq' = nextSeq
                         /\ delivered' = delivered
                         /\ lastCall'.outcome = "returned")

\* a send_event made after the loop ended has returned; the PTY writer is
\* gone too
C5_Witness ==
    /\ lastCall.op = "send_event"
    /\ ~lastCall.rx
    /\ lastCall.outcome = "returned"
    /\ ~loopAlive
    /\ ~ptyRxAlive

\* C6: VoidListener.send_event(e) can always be called and changes neither
\* the event queue, nor the PTY channel, nor any other part of the state but
\* the record of the call itself.
C6_VoidListenerIsNoOp ==
    \A e \in RioEvent :
       ENABLED (VoidSendEvent(e) /\ UNCHANGED <<ptyVars, uiVars, fmtVars>>)

\* a VoidListener call has returned while an envelope of a real producer is
\* queued and another has been dequeued
C6_Witness ==
    /\ lastCall.op = "void_send_event"
    /\ Len(evQueue) = 1
    /\ Len(delivered) = 1

AllIds == Producers \X (1..MaxSends)
SentIds == {id \in AllIds : id[2] <= nextSeq[id[1]]}
QueueCount(id) ==
    Cardinality({i \in 1..Len(evQueue) : <<evQueue[i].src, evQueue[i].seq>> = id})
DeliveredCount(id) ==
    Cardinality({i \in 1..Len(delivered) : delivered[i] = id})

\* C8 as stated: no envelope is dequeued twice, and every envelope posted
\* while the loop was alive is still queued or has been dequeued (none lost).
C8_NoAliveSendLost ==
    \A id \in SentIds :
       /\ DeliveredCount(id) <= 1
       /\ QueueCount(id) + DeliveredCount(id) = 1

\* C8 as amended: no envelope is dequeued twice; while the loop lives every
\* posted envelope is queued once or dequeued once; and a queued envelope is
\* eventually dequeued unless the loop ends first.
C8_ExactlyOnceUnlessLoopEnds ==
    /\ [](\A id \in AllIds :
             /\ DeliveredCount(id) <= 1
             /\ QueueCount(id) + DeliveredCount(id) <= 1
             /\ id \notin SentIds => QueueCount(id) + DeliveredCount(id) = 0
             /\ (loopAlive /\ id \in SentIds)
                   => QueueCount(id) + DeliveredCount(id) = 1)
    /\ \A id \in AllIds :
          (QueueCount(id) = 1) ~> (DeliveredCount(id) = 1 \/ ~loopAlive)

\* two producers posted one envelope each; one was dequeued, then the loop
\* ended with the other still queued
C8_Witness ==
    /\ ~loopAlive
    /\ nextSeq["p1"] = 1
    /\ nextSeq["p2"] = 1
    /\ Len(delivered) = 1

NoLineBreak(text) == \A i \in 1..Len(text) : text[i] # "\n"
Contains(text, part) ==
    \E i \in 0..(Len(text) - Len(part)) : SubSeq(text, i + 1, i + Len(part)) = part

\* C9: Debug-formatting a RioEvent yields a single line of text that contains
\* the variant's tag name, whatever the payload string.
C9_DebugSingleLine ==
    lastFmt.event.tag # "-"
       => /\ lastFmt.result = "Ok"
          /\ NoLineBreak(lastFmt.text)
          /\ Contains(lastFmt.text, TagName(lastFmt.event.tag))

\* C10: Debug-formatting TextAreaSizeRequest(f) writes exactly
\* "TextAreaSizeRequest", succeeds, and invokes no callback.
C10_CallbackVariantTagOnly ==
    [][\A f \in Callbacks :
          Format([tag |-> "TextAreaSizeRequest", cb |-> f])
             => /\ lastFmt'.text = <<"T","e","x","t","A","r","e","a","S","i","z","e",
                                    "R","e","q","u","e","s","t">>
                /\ lastFmt'.result = "Ok"
                /\ cbCalls' = cbCalls]_vars

\* a TextAreaSizeRequest was formatted whose callback the receiver had
\* invoked before
C10_Witness ==
    /\ lastFmt.event.tag = "TextAreaSizeRequest"
    /\ cbCalls[lastFmt.event.cb] = 1
    /\ lastFmt.text = TagName("TextAreaSizeRequest")

====
